---- MODULE Spec2Model ----
(***************************************************************************)
(* Model of the intermode base driver (src/intermode-model/module.go):     *)
(* the frame codec (calculateSteeringAngleBytes,                           *)
(* calculateAccelAndBrakeBytes, driveCommand.toFrame), the publish loop    *)
(* (publishThread), the hand-off (setNextCommand), the Motion API and      *)
(* Close.                                                                  *)
(*                                                                         *)
(* float64 values are modelled as fixed-point integers: the integer n      *)
(* stands for the float n / FracUnits.  With FracUnits a power of two      *)
(* every modelled value is exactly representable as a float64, and the     *)
(* divisions by 0.0078125 and 0.0625 are exact scalings, so integer        *)
(* arithmetic on n gives the float result of the Go code.                  *)
(***************************************************************************)
EXTENDS Integers, Sequences, FiniteSets, TLC

\* ------------------------------------------------------------------ bounds
\* fixed-point units per 1.0 (resolution of the modelled float64 values)
FracUnits == 1024
\* accelerator inputs of the codec: -MaxAccelSteps..MaxAccelSteps quarter percents
MaxAccelSteps == 16
\* steering inputs of the codec: -MaxAngleSteps..MaxAngleSteps units near zero
MaxAngleSteps == 7

\* --------------------------------------------------------------- constants
driveId == 544

gears ==
  [park |-> 0, reverse |-> 1, neutral |-> 2, drive |-> 3, emergency_stop |-> 4]

steerModes ==
  [frontWheelDrive |-> 0, rearWheelDrive |-> 1, fourWheelDrive |-> 2,
   crabSteering |-> 3]

\* the float n (an integer number of whole units) in fixed point
Fx(n) == n * FracUnits

Abs(x) == IF x < 0 THEN -x ELSE x

\* Go's float -> integer conversion: the fraction is discarded (toward zero)
TruncDiv(num, den) ==
  IF num >= 0 THEN num \div den ELSE -((-num) \div den)

\* round to nearest, halves away from zero (math.Round); used by claims only
RoundDiv(num, den) ==
  IF num >= 0 THEN (2 * num + den) \div (2 * den)
  ELSE -((2 * (-num) + den) \div (2 * den))

\* uint16(value) of an int16: two's complement
Uint16OfInt16(v) == IF v < 0 THEN v + 65536 ELSE v

\* binary.LittleEndian.PutUint16
PutUint16(v) == <<v % 256, (v \div 256) % 256>>

\* the uint16 / int16 a little-endian byte pair stands for (used by claims)
LEUint16(b) == b[1] + 256 * b[2]

LEInt16(b) == IF LEUint16(b) >= 32768 THEN LEUint16(b) - 65536 ELSE LEUint16(b)

\* ------------------------------------------------------------------- codec
\* calculateSteeringAngleBytes without the clamp to [-90, 90]
calculateSteeringAngleBytes_NoClamp(angle) ==
  PutUint16(Uint16OfInt16(TruncDiv(angle * 128, FracUnits)))

calculateSteeringAngleBytes(angle) ==
  LET clamped == IF Abs(angle) > Fx(90)
                 THEN (IF angle < 0 THEN -Fx(90) ELSE Fx(90))
                 ELSE angle
      value == TruncDiv(clamped * 128, FracUnits)
  IN  PutUint16(Uint16OfInt16(value))

\* calculateAccelAndBrakeBytes with the brake pattern in big-endian order
calculateAccelAndBrakeBytes_BigEndianBrake(accelPct) ==
  IF accelPct = 0
  THEN <<0, 0, 6, 64>>
  ELSE PutUint16(TruncDiv(Abs(accelPct) * 16, 5 * FracUnits)) \o <<0, 0>>

\* calculateAccelAndBrakeBytes giving the brake pattern whenever the encoded
\* accelerator value is zero
calculateAccelAndBrakeBytes_BrakeOnZeroValue(accelPct) ==
  IF TruncDiv(Abs(accelPct) * 16, 5 * FracUnits) = 0
  THEN <<0, 0, 64, 6>>
  ELSE PutUint16(TruncDiv(Abs(accelPct) * 16, 5 * FracUnits)) \o <<0, 0>>

\* inputs are kept below 20480 percent, where uint16(...) is in range
calculateAccelAndBrakeBytes(accelPct) ==
  IF accelPct = 0
  THEN <<0, 0, 64, 6>>
  ELSE LET value == TruncDiv(Abs(accelPct) * 16, 5 * FracUnits)
       IN  PutUint16(value) \o <<0, 0>>

\* toFrameCmd writing the gear whatever the accelerator
toFrameCmd_GearAlways(cmd) == [cmd EXCEPT !.Gear = gears.reverse]

\* toFrameCmd with the comparison off by one: zero counts as reverse
toFrameCmd_LeqZero(cmd) ==
  IF cmd.Accelerator <= 0 THEN [cmd EXCEPT !.Gear = gears.reverse] ELSE cmd

\* the command *cmd after toFrame ran on it (pointer receiver)
toFrameCmd(cmd) ==
  IF cmd.Accelerator < 0 THEN [cmd EXCEPT !.Gear = gears.reverse] ELSE cmd

\* the frame toFrame returns
toFrame(cmd) ==
  [ID   |-> driveId,
   Kind |-> "SFF",
   Data |-> calculateAccelAndBrakeBytes(cmd.Accelerator)
            \o calculateSteeringAngleBytes(cmd.SteeringAngle)
            \o <<toFrameCmd(cmd).Gear, cmd.SteerMode>>]

driveCommand(acc, brake, angle, gear, mode) ==
  [Accelerator |-> acc, Brake |-> brake, SteeringAngle |-> angle,
   Gear |-> gear, SteerMode |-> mode]

stopCmdInit ==
  driveCommand(0, Fx(100), 0, gears.park, steerModes.fourWheelDrive)

NoFrame == [ID |-> 0, Kind |-> "none", Data |-> <<>>]

NoCmd == driveCommand(0, 0, 0, 0, 0)

\* ------------------------------------------------------------ driver bounds
\* concurrent Motion API callers
NumCallers == 2
\* consecutive timeouts (ticks without a hand-off) the publish loop takes
MaxTicks == 2

Callers == 1 .. NumCallers

\* inputs of the Motion API calls
DistanceInputs == {1000}

SpeedInputs == {Fx(200), -Fx(200)}

SpinAngleInputs == {-Fx(100)}

SpinSpeedInputs == {Fx(90)}

\* linear.Y = -0.25: SetPower encodes 25 percent as 80, SetVelocity 0.25 as 0
LinearYInputs == {-(FracUnits \div 4)}

\* linear.Y of SetVelocity: -0.25, and 0, whose frame has the brake bytes of
\* the stop frame but gear Drive
VelocityYInputs == {-(FracUnits \div 4), 0}

AngularZInputs == {0}

VARIABLES
  cancelled,        \* cancelCtx is done (base.cancel was called)
  closePc,          \* Close: "idle", "wait" (in Wait), "returned"
  workers,          \* activeBackgroundWorkers counter
  loopPc,           \* publishThread: "start","check","select","send","returned","exited"
  frame,            \* publishThread's local frame
  wokeBy,           \* the select case the loop last took: "none","cancel","recv","timeout"
  stopCmd,          \* the package-level stopCmd
  callerPc,         \* per caller: "idle", "offer" (in setNextCommand's select),
                    \*   "wait" (in SelectContextOrWait)
  callerOp,         \* per caller: the call in progress or last made, with its arguments
  phase,            \* per caller: "motion" (first push) or "stop" (deferred push)
  callerCmd,        \* per caller: the local driveCommand of the call
  cmdBuilt,         \* per caller: that command as built, before any push
  offered,          \* per caller: the frame its select offers on nextCommandCh
  ctxDone,          \* per caller: its context is cancelled
  result,           \* per caller: what its last call returned: "nil", "err"
                    \*   ("none": not yet)
  handed,           \* per caller: frames of the call the loop accepted, in order
  lastSent,         \* frame of the last Send attempt
  lastSendOk,       \* err == nil of the Send just made (err lives in the if)
  lastAccepted,     \* the last frame received
  acceptedOp,       \* the call (and phase) the last received frame came from
  acceptSent,       \* the last received frame was passed to Send since
  idleTicks,        \* consecutive timeouts since the last receive
  idleSends,        \* Send attempts that followed those timeouts
  codecPc,          \* codec harness: "idle", "ready", "accel", "angle", "frame"
  codecCmd,         \* codec harness: the command variable passed by pointer
  codecIn,          \* codec harness: its value before the call
  codecBytes,       \* codec harness: the bytes a calculate... call returned
  codecFrame        \* codec harness: the frame toFrame returned

driverVars ==
  <<cancelled, closePc, workers, loopPc, frame, wokeBy, stopCmd>>

callerVars ==
  <<callerPc, callerOp, phase, callerCmd, cmdBuilt, offered, ctxDone, result,
    handed>>

historyVars ==
  <<lastSent, lastSendOk, lastAccepted, acceptedOp, acceptSent, idleTicks,
    idleSends>>

codecVars == <<codecPc, codecCmd, codecIn, codecBytes, codecFrame>>

vars == <<driverVars, callerVars, historyVars, codecVars>>

NoOp == [name |-> "none", a |-> 0, b |-> 0]

\* the state newBase leaves: the worker is registered and its goroutine started
InitDriver ==
  /\ cancelled = FALSE
  /\ closePc = "idle"
  /\ workers = 1
  /\ loopPc = "start"
  /\ frame = NoFrame
  /\ wokeBy = "none"
  /\ stopCmd = stopCmdInit
  /\ callerPc = [c \in Callers |-> "idle"]
  /\ callerOp = [c \in Callers |-> NoOp]
  /\ phase = [c \in Callers |-> "none"]
  /\ callerCmd = [c \in Callers |-> NoCmd]
  /\ cmdBuilt = [c \in Callers |-> NoCmd]
  /\ offered = [c \in Callers |-> NoFrame]
  /\ ctxDone = [c \in Callers |-> FALSE]
  /\ result = [c \in Callers |-> "none"]
  /\ handed = [c \in Callers |-> <<>>]
  /\ lastSent = NoFrame
  /\ lastSendOk = TRUE
  /\ lastAccepted = NoFrame
  /\ acceptedOp = [name |-> "none", phase |-> "none"]
  /\ acceptSent = FALSE
  /\ idleTicks = 0
  /\ idleSends = 0

CodecIdle ==
  /\ codecPc = "idle"
  /\ codecCmd = NoCmd
  /\ codecIn = NoCmd
  /\ codecBytes = <<>>
  /\ codecFrame = NoFrame

Init == InitDriver /\ CodecIdle

\* --------------------------------------------------------------- hand-off
\* the call of caller c returns r to its caller: its locals and its context
\* are gone, the caller holds the returned value
Return(c, r) ==
  /\ callerPc' = [callerPc EXCEPT ![c] = "idle"]
  /\ callerOp' = [callerOp EXCEPT ![c] = NoOp]
  /\ phase' = [phase EXCEPT ![c] = "none"]
  /\ callerCmd' = [callerCmd EXCEPT ![c] = NoCmd]
  /\ cmdBuilt' = [cmdBuilt EXCEPT ![c] = NoCmd]
  /\ offered' = [offered EXCEPT ![c] = NoFrame]
  /\ ctxDone' = [ctxDone EXCEPT ![c] = FALSE]
  /\ handed' = [handed EXCEPT ![c] = <<>>]
  /\ result' = [result EXCEPT ![c] = r]

\* setNextCommand without the ctx.Err() check before its select
setNextCommand_NoErrCheck(c, op, cmd, done) ==
  /\ ctxDone' = [ctxDone EXCEPT ![c] = done]
  /\ callerOp' = [callerOp EXCEPT ![c] = op]
  /\ cmdBuilt' = [cmdBuilt EXCEPT ![c] = cmd]
  /\ handed' = [handed EXCEPT ![c] = <<>>]
  /\ phase' = [phase EXCEPT ![c] = "motion"]
  /\ result' = [result EXCEPT ![c] = "none"]
  /\ callerCmd' = [callerCmd EXCEPT ![c] = toFrameCmd(cmd)]
  /\ offered' = [offered EXCEPT ![c] = toFrame(cmd)]
  /\ callerPc' = [callerPc EXCEPT ![c] = "offer"]
  /\ UNCHANGED <<driverVars, historyVars, codecVars>>

\* setNextCommand(ctx, &cmd) on the call's local command, up to its select:
\* ctx.Err() is checked, then the select evaluates cmd.toFrame, which may
\* write cmd.Gear, and offers the frame on nextCommandCh.  With a cancelled
\* context the call returns the error (every first push is returned as is).
setNextCommand(c, op, cmd, done) ==
  /\ IF done
     THEN Return(c, "err")
     ELSE /\ ctxDone' = [ctxDone EXCEPT ![c] = FALSE]
          /\ callerOp' = [callerOp EXCEPT ![c] = op]
          /\ cmdBuilt' = [cmdBuilt EXCEPT ![c] = cmd]
          /\ handed' = [handed EXCEPT ![c] = <<>>]
          /\ phase' = [phase EXCEPT ![c] = "motion"]
          /\ result' = [result EXCEPT ![c] = "none"]
          /\ callerCmd' = [callerCmd EXCEPT ![c] = toFrameCmd(cmd)]
          /\ offered' = [offered EXCEPT ![c] = toFrame(cmd)]
          /\ callerPc' = [callerPc EXCEPT ![c] = "offer"]
  /\ UNCHANGED <<driverVars, historyVars, codecVars>>

\* setNextCommand(ctx, &stopCmd): the same, on the package-level stopCmd
setNextCommandStop(c, op, done) ==
  /\ IF done
     THEN Return(c, "err") /\ UNCHANGED stopCmd
     ELSE /\ ctxDone' = [ctxDone EXCEPT ![c] = FALSE]
          /\ callerOp' = [callerOp EXCEPT ![c] = op]
          /\ cmdBuilt' = [cmdBuilt EXCEPT ![c] = stopCmd]
          /\ callerCmd' = [callerCmd EXCEPT ![c] = NoCmd]
          /\ handed' = [handed EXCEPT ![c] = <<>>]
          /\ phase' = [phase EXCEPT ![c] = "stop"]
          /\ result' = [result EXCEPT ![c] = "none"]
          /\ stopCmd' = toFrameCmd(stopCmd)
          /\ offered' = [offered EXCEPT ![c] = toFrame(stopCmd)]
          /\ callerPc' = [callerPc EXCEPT ![c] = "offer"]
  /\ UNCHANGED <<cancelled, closePc, workers, loopPc, frame, wokeBy,
                 historyVars, codecVars>>

\* caller 1 makes every Motion API call; the callers racing it push
\* SetPower commands
OpsOf(c) ==
  IF c = 1 THEN {"MoveStraight", "Spin", "SetPower", "SetVelocity", "Stop"}
  ELSE {"SetPower"}

CanCall(c, name) == callerPc[c] = "idle" /\ name \in OpsOf(c)

\* ------------------------------------------------------------- Motion API
MoveStraight(c, distanceMm, mmPerSec, done) ==
  /\ CanCall(c, "MoveStraight")
  /\ LET cmd0 == driveCommand(Fx(50), 0, 0, gears.drive,
                              steerModes.fourWheelDrive)
         cmd == IF mmPerSec < 0 \/ distanceMm < 0
                THEN [cmd0 EXCEPT !.Accelerator = -1 * @]
                ELSE cmd0
     IN  setNextCommand(c, [name |-> "MoveStraight", a |-> distanceMm,
                            b |-> mmPerSec], cmd, done)

Spin(c, angleDeg, degsPerSec, done) ==
  /\ CanCall(c, "Spin")
  /\ setNextCommand(c, [name |-> "Spin", a |-> angleDeg, b |-> degsPerSec],
                    driveCommand(Fx(50), 0, angleDeg, gears.drive,
                                 steerModes.fourWheelDrive), done)

SetPower(c, linearY, angularZ, done) ==
  /\ CanCall(c, "SetPower")
  /\ setNextCommand(c, [name |-> "SetPower", a |-> linearY, b |-> angularZ],
                    driveCommand(linearY * 100, 0, angularZ * 100, gears.drive,
                                 steerModes.fourWheelDrive), done)

SetVelocity(c, linearY, angularZ, done) ==
  /\ CanCall(c, "SetVelocity")
  /\ setNextCommand(c, [name |-> "SetVelocity", a |-> linearY, b |-> angularZ],
                    driveCommand(linearY, 0, angularZ * 100, gears.drive,
                                 steerModes.fourWheelDrive), done)

Stop(c, done) ==
  /\ CanCall(c, "Stop")
  /\ setNextCommandStop(c, [name |-> "Stop", a |-> 0, b |-> 0], done)

\* Timed taking SetPower for a timed call as well
Timed_WithSetPower(c) == callerOp[c].name \in {"MoveStraight", "Spin", "SetPower"}

Timed(c) == callerOp[c].name \in {"MoveStraight", "Spin"}

\* the select of setNextCommand takes <-ctx.Done(): the push returns ctx.Err().
\* A first push returns it to the caller; the result of the deferred push is
\* dropped and the call returns what the timed wait decided.
PushCancelled(c) ==
  /\ callerPc[c] = "offer"
  /\ ctxDone[c]
  /\ Return(c, IF Timed(c) /\ phase[c] = "stop" THEN result[c] ELSE "err")
  /\ UNCHANGED <<driverVars, historyVars, codecVars>>

\* WaitElapsed without the deferred stop: the call returns nil after the wait
WaitElapsed_NoStop(c) ==
  /\ callerPc[c] = "wait"
  /\ Return(c, "nil")
  /\ UNCHANGED <<driverVars, historyVars, codecVars>>

\* SelectContextOrWait returns true: its select took the timer, which it may
\* do with the context done as well when both are ready.  The call will
\* return nil, and the deferred setNextCommand(ctx, &stopCmd) runs: up to its
\* select with a live context, to its ctx.Err() check with a done one
WaitElapsed(c) ==
  /\ callerPc[c] = "wait"
  /\ IF ctxDone[c]
     THEN /\ Return(c, "nil")
          /\ UNCHANGED <<driverVars, historyVars, codecVars>>
     ELSE /\ result' = [result EXCEPT ![c] = "nil"]
          /\ phase' = [phase EXCEPT ![c] = "stop"]
          /\ stopCmd' = toFrameCmd(stopCmd)
          /\ offered' = [offered EXCEPT ![c] = toFrame(stopCmd)]
          /\ callerPc' = [callerPc EXCEPT ![c] = "offer"]
          /\ UNCHANGED <<callerOp, callerCmd, cmdBuilt, ctxDone, handed,
                         cancelled, closePc, workers, loopPc, frame, wokeBy,
                         historyVars, codecVars>>

\* SelectContextOrWait returns false (the context is done): the call returns
\* ctx.Err(); the deferred setNextCommand sees ctx.Err() and returns at once
WaitCancelled(c) ==
  /\ callerPc[c] = "wait"
  /\ ctxDone[c]
  /\ Return(c, "err")
  /\ UNCHANGED <<driverVars, historyVars, codecVars>>

\* the context of the call in progress is cancelled (by the caller's side)
CancelCtx(c) ==
  /\ callerPc[c] \in {"offer", "wait"}
  /\ ~ctxDone[c]
  /\ ctxDone' = [ctxDone EXCEPT ![c] = TRUE]
  /\ UNCHANGED <<callerPc, callerOp, phase, callerCmd, cmdBuilt, offered,
                 result, handed, driverVars, historyVars, codecVars>>

\* ----------------------------------------------------------- publishThread
\* frame := (&stopCmd).toFrame(logger)
LoopStart ==
  /\ loopPc = "start"
  /\ frame' = toFrame(stopCmd)
  /\ stopCmd' = toFrameCmd(stopCmd)
  /\ loopPc' = "check"
  /\ UNCHANGED <<cancelled, closePc, workers, wokeBy, callerVars, historyVars,
                 codecVars>>


\* LoopCheck without the ctx.Err() test: the loop always goes on to its select
LoopCheck_NoErrCheck ==
  /\ loopPc = "check"
  /\ loopPc' = "select"
  /\ lastSendOk' = TRUE
  /\ UNCHANGED <<cancelled, closePc, workers, frame, wokeBy, stopCmd,
                 callerVars, lastSent, lastAccepted, acceptedOp, acceptSent,
                 idleTicks, idleSends, codecVars>>

\* the error of the Send, if any, was logged; if ctx.Err() != nil { return }
LoopCheck ==
  /\ loopPc = "check"
  /\ loopPc' = IF cancelled THEN "returned" ELSE "select"
  /\ lastSendOk' = TRUE
  /\ UNCHANGED <<cancelled, closePc, workers, frame, wokeBy, stopCmd,
                 callerVars, lastSent, lastAccepted, acceptedOp, acceptSent,
                 idleTicks, idleSends, codecVars>>

\* case <-ctx.Done(): (empty case: control falls to the Send below)
LoopCtxDone ==
  /\ loopPc = "select"
  /\ cancelled
  /\ wokeBy' = "cancel"
  /\ loopPc' = "send"
  /\ UNCHANGED <<cancelled, closePc, workers, frame, stopCmd, callerVars,
                 historyVars, codecVars>>

\* LoopReceive with the received frame assigned to a shadowing variable
\* (frame := <-nextCommandCh): the loop's frame stays as it was
LoopReceive_Shadowed(c) ==
  /\ loopPc = "select"
  /\ callerPc[c] = "offer"
  /\ frame' = frame
  /\ wokeBy' = "recv"
  /\ loopPc' = "send"
  /\ IF Timed(c) /\ phase[c] = "motion"
     THEN /\ callerPc' = [callerPc EXCEPT ![c] = "wait"]
          /\ offered' = [offered EXCEPT ![c] = NoFrame]
          /\ handed' = [handed EXCEPT ![c] = Append(@, offered[c])]
          /\ UNCHANGED <<callerOp, phase, callerCmd, cmdBuilt, ctxDone, result>>
     ELSE Return(c, IF Timed(c) THEN result[c] ELSE "nil")
  /\ lastAccepted' = offered[c]
  /\ acceptedOp' = [name |-> callerOp[c].name, phase |-> phase[c]]
  /\ acceptSent' = FALSE
  /\ idleTicks' = 0
  /\ idleSends' = 0
  /\ UNCHANGED <<cancelled, closePc, workers, stopCmd, lastSent, lastSendOk,
                 codecVars>>

\* LoopReceive followed by continue: the received frame is not sent before
\* the next select
LoopReceive_Continue(c) ==
  /\ loopPc = "select"
  /\ callerPc[c] = "offer"
  /\ frame' = offered[c]
  /\ wokeBy' = "recv"
  /\ loopPc' = "check"
  /\ IF Timed(c) /\ phase[c] = "motion"
     THEN /\ callerPc' = [callerPc EXCEPT ![c] = "wait"]
          /\ offered' = [offered EXCEPT ![c] = NoFrame]
          /\ handed' = [handed EXCEPT ![c] = Append(@, offered[c])]
          /\ UNCHANGED <<callerOp, phase, callerCmd, cmdBuilt, ctxDone, result>>
     ELSE Return(c, IF Timed(c) THEN result[c] ELSE "nil")
  /\ lastAccepted' = offered[c]
  /\ acceptedOp' = [name |-> callerOp[c].name, phase |-> phase[c]]
  /\ acceptSent' = FALSE
  /\ idleTicks' = 0
  /\ idleSends' = 0
  /\ UNCHANGED <<cancelled, closePc, workers, stopCmd, lastSent, lastSendOk,
                 codecVars>>

\* case frame = <-nextCommandCh: the rendezvous with caller c, whose
\* setNextCommand returns nil.  A first push of MoveStraight / Spin goes on
\* to the timed wait; a deferred push ends the call with the wait's result.
LoopReceive(c) ==
  /\ loopPc = "select"
  /\ callerPc[c] = "offer"
  /\ frame' = offered[c]
  /\ wokeBy' = "recv"
  /\ loopPc' = "send"
  /\ IF Timed(c) /\ phase[c] = "motion"
     THEN /\ callerPc' = [callerPc EXCEPT ![c] = "wait"]
          /\ offered' = [offered EXCEPT ![c] = NoFrame]
          /\ handed' = [handed EXCEPT ![c] = Append(@, offered[c])]
          /\ UNCHANGED <<callerOp, phase, callerCmd, cmdBuilt, ctxDone, result>>
     ELSE Return(c, IF Timed(c) THEN result[c] ELSE "nil")
  /\ lastAccepted' = offered[c]
  /\ acceptedOp' = [name |-> callerOp[c].name, phase |-> phase[c]]
  /\ acceptSent' = FALSE
  /\ idleTicks' = 0
  /\ idleSends' = 0
  /\ UNCHANGED <<cancelled, closePc, workers, stopCmd, lastSent, lastSendOk,
                 codecVars>>

\* LoopTimeout followed by continue: a tick without a hand-off sends nothing
LoopTimeout_NoResend ==
  /\ loopPc = "select"
  /\ idleTicks < MaxTicks
  /\ wokeBy' = "timeout"
  /\ loopPc' = "check"
  /\ idleTicks' = idleTicks + 1
  /\ UNCHANGED <<cancelled, closePc, workers, frame, stopCmd, callerVars,
                 lastSent, lastSendOk, lastAccepted, acceptedOp, acceptSent,
                 idleSends, codecVars>>

\* case <-time.After(10 * time.Millisecond):
LoopTimeout ==
  /\ loopPc = "select"
  /\ idleTicks < MaxTicks
  /\ wokeBy' = "timeout"
  /\ loopPc' = "send"
  /\ idleTicks' = idleTicks + 1
  /\ UNCHANGED <<cancelled, closePc, workers, frame, stopCmd, callerVars,
                 lastSent, lastSendOk, lastAccepted, acceptedOp, acceptSent,
                 idleSends, codecVars>>


\* LoopSend returning from the loop when Send reports an error
LoopSend_ReturnOnError(ok) ==
  /\ loopPc = "send"
  /\ lastSent' = frame
  /\ lastSendOk' = ok
  /\ acceptSent' = (lastAccepted # NoFrame)
  /\ idleSends' = IF wokeBy = "timeout" THEN idleSends + 1 ELSE idleSends
  /\ loopPc' = IF ok THEN "check" ELSE "returned"
  /\ UNCHANGED <<cancelled, closePc, workers, frame, wokeBy, stopCmd,
                 callerVars, lastAccepted, acceptedOp, idleTicks, codecVars>>

\* socket.Send(frame); an error is logged and the loop goes on
LoopSend(ok) ==
  /\ loopPc = "send"
  /\ lastSent' = frame
  /\ lastSendOk' = ok
  /\ acceptSent' = (lastAccepted # NoFrame)
  /\ idleSends' = IF wokeBy = "timeout" THEN idleSends + 1 ELSE idleSends
  /\ loopPc' = "check"
  /\ UNCHANGED <<cancelled, closePc, workers, frame, wokeBy, stopCmd,
                 callerVars, lastAccepted, acceptedOp, idleTicks, codecVars>>

\* ManagedGo's onComplete: activeBackgroundWorkers.Done
LoopDone ==
  /\ loopPc = "returned"
  /\ workers' = workers - 1
  /\ loopPc' = "exited"
  /\ UNCHANGED <<cancelled, closePc, frame, wokeBy, stopCmd, callerVars,
                 historyVars, codecVars>>

\* -------------------------------------------------------------------- Close
\* base.cancel()
CloseCancel ==
  /\ closePc = "idle"
  /\ cancelled' = TRUE
  /\ closePc' = "wait"
  /\ UNCHANGED <<workers, loopPc, frame, wokeBy, stopCmd, callerVars,
                 historyVars, codecVars>>

\* CloseWait without the join: Close returns right after cancel()
CloseWait_NoJoin ==
  /\ closePc = "wait"
  /\ closePc' = "returned"
  /\ UNCHANGED <<cancelled, workers, loopPc, frame, wokeBy, stopCmd,
                 callerVars, historyVars, codecVars>>

\* base.activeBackgroundWorkers.Wait() returns
CloseWait ==
  /\ closePc = "wait"
  /\ workers = 0
  /\ closePc' = "returned"
  /\ UNCHANGED <<cancelled, workers, loopPc, frame, wokeBy, stopCmd,
                 callerVars, historyVars, codecVars>>

\* ------------------------------------------------------------ specification
\* a call is made with a live context or with one that is already cancelled
CallerStep(c) ==
  \/ \E d \in DistanceInputs, v \in SpeedInputs, done \in BOOLEAN :
        MoveStraight(c, d, v, done)
  \/ \E a \in SpinAngleInputs, v \in SpinSpeedInputs, done \in BOOLEAN :
        Spin(c, a, v, done)
  \/ \E y \in LinearYInputs, z \in AngularZInputs, done \in BOOLEAN :
        SetPower(c, y, z, done)
  \/ \E y \in VelocityYInputs, z \in AngularZInputs, done \in BOOLEAN :
        SetVelocity(c, y, z, done)
  \/ \E done \in BOOLEAN : Stop(c, done)
  \/ PushCancelled(c)
  \/ WaitElapsed(c)
  \/ WaitCancelled(c)

LoopStep ==
  \/ LoopStart
  \/ LoopCheck
  \/ LoopCtxDone
  \/ \E c \in Callers : LoopReceive(c)
  \/ LoopTimeout
  \/ \E ok \in BOOLEAN : LoopSend(ok)
  \/ LoopDone

Next ==
  \/ \E c \in Callers : CallerStep(c)
  \/ \E c \in Callers : CancelCtx(c)
  \/ LoopStep
  \/ CloseCancel
  \/ CloseWait

Spec == Init /\ [][Next]_vars

\* the goroutines that can run are scheduled, timers fire, and Wait returns
\* once the counter is zero; making calls, cancelling contexts and calling
\* Close are up to the environment
FairSpec ==
  /\ Spec
  /\ WF_vars(LoopStep)
  /\ WF_vars(CloseWait)
  /\ \A c \in Callers :
       WF_vars(PushCancelled(c) \/ WaitElapsed(c) \/ WaitCancelled(c))

\* FairSpec, and the senders parked on nextCommandCh are served: a receive
\* takes the sender that waited longest, so a sender the loop could serve
\* again and again is served
SenderFairSpec ==
  FairSpec /\ \A c \in Callers : SF_vars(LoopReceive(c))

\* ------------------------------------------------------------ codec harness
\* the frame codec applied to commands drawn from bounded sets
AccelInputs ==
  {k * (FracUnits \div 4) : k \in -MaxAccelSteps .. MaxAccelSteps}
    \cup {Fx(50), -Fx(50)}
    \cup {s * q : s \in {-1, 1},
                  q \in {(5 * FracUnits) \div 16 - 1, (5 * FracUnits) \div 16}}

AngleInputs ==
  (-MaxAngleSteps .. MaxAngleSteps)
    \cup {Fx(45), -Fx(45), Fx(90), -Fx(90), Fx(90) + 1, -Fx(90) - 1,
          Fx(100), -Fx(100)}

CodecInputs ==
  {driveCommand(acc, 0, angle, gear, mode) :
     acc \in AccelInputs, angle \in AngleInputs,
     gear \in {gears.park, gears.reverse, gears.neutral, gears.drive,
               gears.emergency_stop},
     mode \in {steerModes.frontWheelDrive, steerModes.rearWheelDrive,
               steerModes.fourWheelDrive, steerModes.crabSteering}}

CodecInit ==
  /\ InitDriver
  /\ codecPc = "ready"
  /\ codecIn \in CodecInputs
  /\ codecCmd = codecIn
  /\ codecBytes = <<>>
  /\ codecFrame = NoFrame

CodecAccel ==
  /\ codecPc = "ready"
  /\ codecBytes' = calculateAccelAndBrakeBytes(codecCmd.Accelerator)
  /\ codecPc' = "accel"
  /\ UNCHANGED <<codecCmd, codecIn, codecFrame, driverVars, callerVars,
                 historyVars>>

CodecAngle ==
  /\ codecPc = "ready"
  /\ codecBytes' = calculateSteeringAngleBytes(codecCmd.SteeringAngle)
  /\ codecPc' = "angle"
  /\ UNCHANGED <<codecCmd, codecIn, codecFrame, driverVars, callerVars,
                 historyVars>>

\* frame := cmd.toFrame(logger), cmd a *driveCommand
CodecToFrame ==
  /\ codecPc = "ready"
  /\ codecFrame' = toFrame(codecCmd)
  /\ codecCmd' = toFrameCmd(codecCmd)
  /\ codecPc' = "frame"
  /\ UNCHANGED <<codecIn, codecBytes, driverVars, callerVars, historyVars>>

CodecNext == CodecAccel \/ CodecAngle \/ CodecToFrame

CodecSpec == CodecInit /\ [][CodecNext]_vars

\* =================================================================== claims
CanonicalStopFrame ==
  [ID |-> driveId, Kind |-> "SFF", Data |-> <<0, 0, 64, 6, 0, 0, 0, 2>>]

\* accelerator 160 (50 percent derated to 10, in 0.0625 units), steering 0,
\* gear Drive, mode FourWheelDrive
MoveStraightFrame ==
  [ID |-> driveId, Kind |-> "SFF", Data |-> <<160, 0, 0, 0, 0, 0, 3, 2>>]

\* the frame the loop is to publish: the last accepted one, or the stop frame
\* built at loop start
AuthoritativeFrame ==
  IF lastAccepted = NoFrame THEN CanonicalStopFrame ELSE lastAccepted

SendEnabled == \E ok \in BOOLEAN : ENABLED LoopSend(ok)

\* C1: once the driver is cancelled, a caller blocked in setNextCommand's
\* select leaves it (with the cancellation error), whether or not the
\* caller's own context is ever cancelled.
C1_BlockedPushUnblocksOnClose ==
  \A c \in Callers :
    (cancelled /\ callerPc[c] = "offer") ~> (callerPc[c] # "offer")

\* C2: when Close has returned, cancellation was signalled, the publish loop
\* has exited (its worker is done), and no Send can be attempted from then on.
C2_NoSendAfterClose ==
  closePc = "returned" =>
    /\ cancelled
    /\ loopPc = "exited"
    /\ workers = 0
    /\ ~SendEnabled

C2_Witness ==
  /\ closePc = "returned"
  /\ lastSent # NoFrame
  /\ \E c \in Callers : callerPc[c] = "offer"

\* C3: when the loop's select ended on <-ctx.Done(), no Send is attempted
\* before the loop exits.
C3_NoSendAfterCancelWake ==
  [][wokeBy = "cancel" => ~(\E ok \in BOOLEAN : LoopSend(ok))]_vars

\* C4: over a run of ticks without a hand-off the loop makes one Send per
\* tick (the counts differ only between a timeout and its Send), and each of
\* these Sends carries the last accepted frame, or the stop frame built at
\* loop start when nothing was accepted yet.
C4_IdleTicksResend ==
  /\ idleTicks - idleSends =
       (IF wokeBy = "timeout" /\ loopPc = "send" THEN 1 ELSE 0)
  /\ (wokeBy = "timeout" /\ loopPc = "send") => frame = AuthoritativeFrame
  /\ (wokeBy = "timeout" /\ loopPc # "send") => lastSent = AuthoritativeFrame

C4_Witness ==
  /\ idleSends = 2
  /\ lastAccepted # NoFrame
  /\ lastAccepted # CanonicalStopFrame
  /\ lastSent = lastAccepted

\* C5: after the loop received the frame of a Stop call, the frame of its
\* next Send (about to be made, or made and still the last one) is the
\* canonical stop frame.
C5_StopIsNextFrame ==
  (wokeBy = "recv" /\ acceptedOp.name = "Stop") =>
    (IF loopPc = "send" THEN frame ELSE lastSent) = CanonicalStopFrame

C5_Witness ==
  /\ wokeBy = "recv"
  /\ acceptedOp.name = "Stop"
  /\ loopPc = "check"
  /\ lastSent = CanonicalStopFrame
  /\ \E c \in Callers :
       callerPc[c] = "offer" /\ offered[c] # CanonicalStopFrame

\* C6: the loop holds the last accepted frame, passes it to Send before it
\* can receive the next one, and every Send made since carried it.
C6_NoSkip ==
  /\ lastAccepted # NoFrame => frame = lastAccepted
  /\ (lastAccepted # NoFrame /\ loopPc = "select") => acceptSent
  /\ acceptSent => lastSent = lastAccepted

C6_Witness ==
  /\ acceptedOp = [name |-> "MoveStraight", phase |-> "stop"]
  /\ acceptSent
  /\ loopPc = "select"
  /\ \E c \in Callers : callerPc[c] = "offer"

PositiveMoveStraight(c) ==
  /\ callerOp[c].name = "MoveStraight"
  /\ callerOp[c].a > 0
  /\ callerOp[c].b > 0

\* C7: a MoveStraight call with positive distance and speed whose context is
\* not cancelled offers the motion frame first, waits only after its
\* hand-off, offers the canonical stop frame after the wait, and returns
\* only by the hand-off of that stop frame (then with nil).
C7_MoveStraightTwoFrames ==
  [][\A c \in Callers :
       (PositiveMoveStraight(c) /\ ~ctxDone[c]) =>
         /\ (callerPc[c] = "offer" /\ phase[c] = "motion") =>
              (handed[c] = <<>> /\ offered[c] = MoveStraightFrame)
         /\ callerPc[c] = "wait" => handed[c] = <<MoveStraightFrame>>
         /\ (callerPc[c] = "offer" /\ phase[c] = "stop") =>
              (handed[c] = <<MoveStraightFrame>>
                 /\ offered[c] = CanonicalStopFrame)
         /\ callerPc'[c] = "idle" =>
              /\ callerPc[c] = "offer"
              /\ phase[c] = "stop"
              /\ lastAccepted' = CanonicalStopFrame
              /\ frame' = CanonicalStopFrame
              /\ result'[c] = "nil"]_vars

C7_Witness ==
  /\ callerPc[1] = "idle"
  /\ result[1] = "nil"
  /\ acceptedOp = [name |-> "MoveStraight", phase |-> "stop"]
  /\ lastAccepted = CanonicalStopFrame
  /\ wokeBy = "recv"
  /\ loopPc = "send"
  /\ lastSent = MoveStraightFrame

\* C8: toFrame emits 8 data bytes; the gear byte is Reverse when the
\* accelerator is negative and the gear passed in when it is not.
C8_FrameLengthAndGear ==
  codecPc = "frame" =>
    /\ Len(codecFrame.Data) = 8
    /\ codecIn.Accelerator < 0 => codecFrame.Data[7] = gears.reverse
    /\ codecIn.Accelerator >= 0 => codecFrame.Data[7] = codecIn.Gear

C8_Witness ==
  /\ codecPc = "frame"
  /\ codecIn.Accelerator < 0
  /\ codecIn.Gear = gears.drive
  /\ codecFrame.Data[7] = gears.reverse

\* C9: toFrame leaves the command it is given unchanged.
C9_CommandUnchanged ==
  codecPc = "frame" => codecCmd = codecIn

\* C10: for a nonzero accelPct the first two bytes are the little-endian
\* value of (|accelPct| / 5) / 0.0625 rounded to nearest, the last two zero.
C10_AccelRounded ==
  (codecPc = "accel" /\ codecIn.Accelerator # 0) =>
    /\ Len(codecBytes) = 4
    /\ LEUint16(codecBytes) =
         RoundDiv(Abs(codecIn.Accelerator) * 16, 5 * FracUnits)
    /\ codecBytes[3] = 0
    /\ codecBytes[4] = 0

\* C11: an angle beyond 90 degrees is encoded as 90 degrees of its sign,
\* 11520 or -11520 units of 1/128 degree, and every encoded value lies in
\* [-11520, 11520].
C11_SteeringSaturates ==
  codecPc = "angle" =>
    /\ Len(codecBytes) = 2
    /\ LEInt16(codecBytes) \in -11520 .. 11520
    /\ codecIn.SteeringAngle > Fx(90) => codecBytes = <<0, 45>>
    /\ codecIn.SteeringAngle < -Fx(90) => codecBytes = <<0, 211>>

C11_Witness ==
  /\ codecPc = "angle"
  /\ codecIn.SteeringAngle = -Fx(100)
  /\ LEInt16(codecBytes) = -11520

\* C12: an angle within [-90, 90] is encoded as the integer nearest to
\* angle * 128 (at most half a unit away from it).
C12_SteeringRounded ==
  (codecPc = "angle" /\ Abs(codecIn.SteeringAngle) <= Fx(90)) =>
    2 * Abs(LEInt16(codecBytes) * FracUnits - codecIn.SteeringAngle * 128)
      <= FracUnits

\* the loop is out of its cycle only after cancellation, a failed Send leaves
\* it at the cancellation check, and what it sends is the authoritative frame
C13_LoopState ==
  /\ loopPc \in {"returned", "exited"} => cancelled
  /\ ~lastSendOk => (loopPc = "check" /\ lastSent = AuthoritativeFrame)
  /\ loopPc \in {"check", "select", "send"} => frame = AuthoritativeFrame

\* C13: a failed Send does not end the loop and reaches no caller: the loop
\* goes on to its cancellation check and, unless cancelled, to the next wait;
\* the next Send carries the same frame or a newer accepted one; the loop
\* returns only after cancellation.
C13_FailedSendIgnored ==
  [][ /\ C13_LoopState
      /\ C13_LoopState'
      /\ (loopPc = "send" /\ loopPc' # "send" /\ ~lastSendOk') =>
           (loopPc' = "check" /\ UNCHANGED callerVars /\ frame' = frame)
      /\ (~lastSendOk /\ loopPc' # loopPc) =>
           loopPc' = (IF cancelled THEN "returned" ELSE "select")
    ]_vars

C13_Witness ==
  /\ ~lastSendOk
  /\ ~cancelled
  /\ lastAccepted # NoFrame
  /\ lastSent = lastAccepted
  /\ \E c \in Callers : callerPc[c] = "offer"

\* the step in which the loop takes a frame from nextCommandCh
LoopAccepts == loopPc = "select" /\ loopPc' = "send" /\ wokeBy' = "recv"

\* C14: a push ends with nil exactly when the loop took its frame, which is
\* then the loop's frame; a push that ends with the cancellation error left
\* the loop's frame as it was; a push whose context is cancelled on entry
\* returns the error without reaching the channel.
C14_PushAllOrNothing ==
  [][\A c \in Callers :
       /\ (callerPc[c] = "offer" /\ callerPc'[c] # "offer") =>
            /\ LoopAccepts => /\ frame' = offered[c]
                              /\ lastAccepted' = offered[c]
            /\ (~(Timed(c) /\ phase[c] = "stop")) =>
                 /\ LoopAccepts <=>
                      (IF Timed(c) THEN callerPc'[c] = "wait"
                                   ELSE result'[c] = "nil")
                 /\ ~LoopAccepts => result'[c] = "err"
            /\ ~LoopAccepts => /\ ctxDone[c]
                               /\ callerPc'[c] = "idle"
                               /\ UNCHANGED <<driverVars, historyVars>>
       /\ (callerPc[c] = "idle" /\ callerPc'[c] = "offer") => ~ctxDone'[c]
       /\ (callerPc[c] = "idle" /\ callerPc'[c] = "idle"
            /\ result'[c] # result[c]) =>
            (result'[c] = "err" /\ UNCHANGED <<driverVars, historyVars>>)
    ]_vars

C14_Witness ==
  /\ callerPc[1] = "idle"
  /\ result[1] = "err"
  /\ lastAccepted = NoFrame
  /\ lastSent = CanonicalStopFrame
  /\ idleSends >= 1
  /\ ~cancelled

\* C15: SetPower and SetVelocity hand off one frame, which is not the stop
\* frame, and return; from its hand-off until the next one the loop's frame,
\* and every frame sent, is that frame.
C15_SingleFrameHeld ==
  /\ \A c \in Callers :
       callerOp[c].name \in {"SetPower", "SetVelocity"} =>
         /\ callerPc[c] = "offer"
         /\ phase[c] = "motion"
         /\ handed[c] = <<>>
         /\ offered[c] # CanonicalStopFrame
         /\ offered[c].Data[7] # gears.park
  /\ acceptedOp.name \in {"SetPower", "SetVelocity"} =>
       /\ acceptedOp.phase = "motion"
       /\ lastAccepted # CanonicalStopFrame
       /\ loopPc \in {"check", "select", "send"} => frame = lastAccepted
       /\ acceptSent => lastSent = lastAccepted

C15_Witness ==
  /\ acceptedOp.name = "SetVelocity"
  /\ idleSends = MaxTicks
  /\ lastSent = lastAccepted
  /\ lastSent.Data = <<0, 0, 0, 0, 0, 0, 1, 2>>
  /\ callerPc[1] = "idle"
  /\ result[1] = "nil"

\* C16: while the driver is not cancelled and the caller's context is live,
\* a push waiting on the channel completes.
C16_PushCompletes ==
  \A c \in Callers :
    (callerPc[c] = "offer") ~>
      (callerPc[c] # "offer" \/ cancelled \/ ctxDone[c])

C16_Witness ==
  /\ ~cancelled
  /\ callerPc[2] = "offer"
  /\ ~ctxDone[2]
  /\ callerPc[1] = "idle"
  /\ result[1] = "nil"
  /\ acceptedOp.name = "Stop"
  /\ acceptSent

\* C17: after cancellation the loop exits and Close returns.
C17_ShutdownCompletes ==
  cancelled ~> (loopPc = "exited" /\ workers = 0 /\ closePc = "returned")

C17_Witness ==
  /\ closePc = "returned"
  /\ loopPc = "exited"
  /\ wokeBy = "recv"
  /\ lastSent = lastAccepted
  /\ \E c \in Callers : callerPc[c] = "offer"

\* while a MoveStraight or Spin motion frame is the last accepted command, it
\* is the loop's frame and the frame of every Send
C18_MotionHeld ==
  (acceptedOp.name \in {"MoveStraight", "Spin"} /\ acceptedOp.phase = "motion")
    => /\ loopPc \in {"check", "select", "send"} => frame = lastAccepted
       /\ acceptSent => lastSent = lastAccepted
       /\ lastAccepted # CanonicalStopFrame

\* a timed call whose context is done during its wait ends the wait without
\* offering a stop frame and without touching the driver
C18_NoStopAfterCancel ==
  [][ /\ C18_MotionHeld
      /\ C18_MotionHeld'
      /\ \A c \in Callers :
           (callerPc[c] = "wait" /\ ctxDone[c] /\ callerPc'[c] # "wait") =>
             /\ callerPc'[c] = "idle"
             /\ UNCHANGED <<driverVars, historyVars>>
    ]_vars

\* C18: a MoveStraight or Spin call whose context is cancelled during its
\* timed wait returns the cancellation error and hands off no stop frame; the
\* loop keeps sending the motion frame until another hand-off or Close.
C18_CancelledWaitReturnsError ==
  [][ /\ C18_MotionHeld
      /\ C18_MotionHeld'
      /\ \A c \in Callers :
           (callerPc[c] = "wait" /\ ctxDone[c] /\ callerPc'[c] # "wait") =>
             /\ callerPc'[c] = "idle"
             /\ result'[c] = "err"
             /\ UNCHANGED <<driverVars, historyVars>>
    ]_vars

\* a nonzero accelerator percentage whose derated magnitude is below one
\* unit of 0.0625 (below 0.3125 percent)
SmallNonzero(accelPct) == accelPct # 0 /\ Abs(accelPct) * 16 < 5 * FracUnits

\* C19: the brake pattern 00 00 40 06 appears exactly for an accelerator of
\* 0; a nonzero accelerator below 0.3125 percent in magnitude gives four
\* zero bytes, and its frame has gear Reverse when it is negative.
C19_BrakeOnlyForZero ==
  /\ codecPc = "accel" =>
       /\ codecBytes = <<0, 0, 64, 6>> <=> codecIn.Accelerator = 0
       /\ SmallNonzero(codecIn.Accelerator) => codecBytes = <<0, 0, 0, 0>>
  /\ codecPc = "frame" =>
       /\ SubSeq(codecFrame.Data, 1, 4) = <<0, 0, 64, 6>>
            <=> codecIn.Accelerator = 0
       /\ SmallNonzero(codecIn.Accelerator) =>
            /\ SubSeq(codecFrame.Data, 1, 4) = <<0, 0, 0, 0>>
            /\ codecIn.Accelerator < 0 => codecFrame.Data[7] = gears.reverse

C19_Witness ==
  /\ codecPc = "frame"
  /\ codecIn.Accelerator = -((5 * FracUnits) \div 16 - 1)
  /\ codecIn.Gear = gears.drive
  /\ SubSeq(codecFrame.Data, 1, 4) = <<0, 0, 0, 0>>
  /\ codecFrame.Data[7] = gears.reverse

\* C20: stopCmd keeps its initial value in every interleaving, and every
\* frame built from it (the loop's first frame, the frame of Stop and of the
\* deferred stop of MoveStraight and Spin) is the canonical stop frame.
C20_StopCmdConstant ==
  /\ stopCmd = stopCmdInit
  /\ \A c \in Callers :
       (callerPc[c] = "offer" /\ phase[c] = "stop") =>
         offered[c] = CanonicalStopFrame
  /\ (loopPc # "start" /\ lastAccepted = NoFrame) => frame = CanonicalStopFrame
  /\ acceptedOp.phase = "stop" => lastAccepted = CanonicalStopFrame

C20_Witness ==
  /\ stopCmd = stopCmdInit
  /\ acceptedOp = [name |-> "Spin", phase |-> "stop"]
  /\ acceptSent
  /\ lastSent = CanonicalStopFrame
  /\ callerOp[1].name = "Stop"
  /\ callerPc[1] = "offer"
  /\ offered[1] = CanonicalStopFrame

====
